---- MODULE Spec2Model ----
(***************************************************************************)
(* nativescript-doctor: SysInfo (the version probe cache), AndroidToolsInfo *)
(* (the SDK capability resolver) and Doctor (the readiness evaluator).      *)
(*                                                                         *)
(* An async method is a frame on a task's call stack.  A frame remembers    *)
(* the results of the awaits it has passed (loc); what it does next is a    *)
(* function of those results.  External collaborators (process runner,     *)
(* filesystem, registry, environment variables) answer from env, which is  *)
(* fixed for a run but discovered lazily: the first time a collaborator is  *)
(* asked, its answer is drawn and remembered.                              *)
(***************************************************************************)
EXTENDS Integers, Sequences, FiniteSets, TLC

VARIABLES
    hostInfo,        \* host family: "darwin", "linux" or "windows"
    env,             \* answers of the external collaborators (lazily fixed)
    shouldCache,     \* SysInfo.shouldCache
    cache,           \* SysInfo's cache fields, by property name
    monoLastIndex,   \* lastIndex of the global regexp SysInfo.monoVerRegExp
    stacks,          \* call stack of each task (innermost frame last)
    runs,            \* history: detection strategy starts, per cache field
    calls,           \* history: getValueForProperty entries, per cache field
    probes,          \* history: external collaborators asked by a strategy, per cache field
    everUncached,    \* history: caching has been disabled at some point
    log,             \* history: completed top-level calls, oldest first
    doctor,          \* the Doctor instance: the object each private field holds
    androidHome,     \* AndroidToolsInfo.androidHome (process.env.ANDROID_HOME)
    fs,              \* the file system under ANDROID_HOME
    tempDirectories, \* history: directories temp.mkdirSync created that still exist
    toolsInfo        \* AndroidToolsInfo.toolsInfo

android == <<androidHome, fs, toolsInfo>>

vars == <<hostInfo, env, shouldCache, cache, monoLastIndex, stacks, runs, calls, probes,
          everUncached, log, doctor, android, tempDirectories>>

-----------------------------------------------------------------------------
(* Bounds of the model *)

\* top-level calls a client makes in one run
MaxCalls == 2
\* external collaborators that answer differently from a healthy machine
MaxBroken == 1
\* the same, in the runs that exercise the Doctor
MaxBrokenDoctor == 2
\* top-level calls a client makes of the Doctor in one run
MaxDoctorCalls == 1
\* calls a client makes of AndroidToolsInfo in one run
MaxAndroidCalls == 2
MaxBrokenOverlap == 0
\* tasks whose calls may be in progress
NumTasks == 2

Tasks == 1..NumTasks

-----------------------------------------------------------------------------
(* JavaScript values.  A string is described by the first version-like      *)
(* token it holds (c: its numeric components, x: what is glued to the last  *)
(* component) and by the rest of its text (s).  The string "7.3.0" is       *)
(* Str(<<7,3,0>>, "", ""); the empty string is Str(<<>>, "", "").           *)

Val(t, b, c, x, s, o) == [t |-> t, b |-> b, c |-> c, x |-> x, s |-> s, o |-> o]
Undef == Val("undef", FALSE, <<>>, "", "", <<>>)
Null == Val("null", FALSE, <<>>, "", "", <<>>)
Bool(b) == Val("bool", b, <<>>, "", "", <<>>)
Str(c, x, s) == Val("str", FALSE, c, x, s, <<>>)
Obj(o) == Val("obj", FALSE, <<>>, "", "", o)
\* a rejected promise / thrown exception (s: its message), and a collaborator
\* not asked yet
Error(message) == Val("rejected", FALSE, <<>>, "", message, <<>>)
Rejected == Error("")
TypeError == Error("TypeError")
IsRejected(v) == v.t = "rejected"
Unknown == Val("unknown", FALSE, <<>>, "", "", <<>>)

EmptyString == Str(<<>>, "", "")
IsNullish(v) == v.t \in {"undef", "null"}
\* numbers: Num(n), and NaN
Num(n) == Val("num", FALSE, <<n>>, "", "", <<>>)
NaN == Val("nan", FALSE, <<>>, "", "", <<>>)
Truthy(v) ==
    CASE v.t = "bool" -> v.b
      [] v.t = "str" -> v # EmptyString
      [] v.t = "num" -> v.c[1] # 0
      [] v.t = "obj" -> TRUE
      [] OTHER -> FALSE

-----------------------------------------------------------------------------
(* semver 5.5.1, as far as the program uses it *)

\* semver.valid: exactly major.minor.patch, nothing glued on, no other text
semverValid(v) == v.t = "str" /\ Len(v.c) = 3 /\ v.x = "" /\ v.s = ""

CompsLess(a, b) ==
    \/ a[1] < b[1]
    \/ a[1] = b[1] /\ a[2] < b[2]
    \/ a[1] = b[1] /\ a[2] = b[2] /\ a[3] < b[3]

\* semver.lt / semver.gte: new SemVer(a) throws TypeError("Invalid Version")
\* for anything that is not a valid version string, undefined and null included
semverLt(a, b) ==
    IF semverValid(a) /\ semverValid(b) THEN Bool(CompsLess(a.c, b.c)) ELSE TypeError
semverGte(a, b) ==
    IF semverValid(a) /\ semverValid(b) THEN Bool(~CompsLess(a.c, b.c)) ELSE TypeError

-----------------------------------------------------------------------------
(* SysInfo: the regular expressions and string helpers *)

\* VERSION_REGEXP = /(\d{1,})\.(\d{1,})\.*([\w-]{0,})/m: a token with at least
\* two components; group 3 is the third component with what is glued to it
versionRegexpMatches(v) == v.t = "str" /\ Len(v.c) >= 2

getVersionFromString(v) ==
    IF versionRegexpMatches(v)
    THEN IF Len(v.c) = 2 THEN Str(<<v.c[1], v.c[2], 0>>, "", "")
         ELSE Str(<<v.c[1], v.c[2], v.c[3]>>, IF Len(v.c) = 3 THEN v.x ELSE "", "")
    ELSE Null

\* match[0].trim() of VERSION_REGEXP: the token as it stands in the text
versionRegexpMatch0(v) ==
    IF Len(v.c) = 2 THEN Str(v.c, v.x, "")
    ELSE Str(<<v.c[1], v.c[2], v.c[3]>>, IF Len(v.c) = 3 THEN v.x ELSE "", "")

\* a regexp of the form /<label> (.*)/: group 1 is the rest of the line
restOfLine(v, label) ==
    IF v.t = "str" /\ v.s = label THEN Str(v.c, v.x, "") ELSE Null

\* JAVA_VERSION_REGEXP = /(?:openjdk|java) version \"((?:\d+\.)+(?:\d+))/i
javaVersionRegexp(v) ==
    IF v.t = "str" /\ v.s = "java version" /\ Len(v.c) >= 2 THEN Str(v.c, "", "") ELSE Null

\* String.prototype.trim on the outputs the model knows
trim(v) ==
    CASE v.s = "\n" -> [v EXCEPT !.s = ""]
      [] v.s = "gem\n" -> [v EXCEPT !.s = "gem"]
      [] v.s = "tns\n" -> [v EXCEPT !.s = ""]
      [] OTHER -> v

\* output.split("\n")[0]
firstLine(v) == IF v.s \in {"\n", "npm\n"} THEN [v EXCEPT !.s = ""] ELSE v

\* monoVerRegExp = /version (\d+[.]\d+[.]\d+) /gm, a global regexp: exec
\* searches from lastIndex, and leaves lastIndex after the match or at 0.
\* null is searched as the string "null".
monoTextMatches(v) == v.t = "str" /\ v.s = "mono" /\ Len(v.c) = 3 /\ v.x = ""
monoExecMatches(v, lastIndex) == monoTextMatches(v) /\ lastIndex = 0
monoExecResult(v, lastIndex) ==
    IF monoExecMatches(v, lastIndex) THEN Str(v.c, "", "") ELSE Null
monoExecLastIndex(v, lastIndex) == IF monoExecMatches(v, lastIndex) THEN 1 ELSE 0

\* SysInfo.exec: a rejected childProcess.exec becomes null
exec(r) == IF IsRejected(r) THEN Null ELSE r
\* SysInfo.execCommand: output && output.stdout
execCommand(r) == exec(r)

-----------------------------------------------------------------------------
(* The external collaborators.  Healthy(x) is what x answers on a machine   *)
(* with every tool installed; Faulty(x) are the other answers of the model. *)
(* The answer of a process run is its output (stdout, or stderr for java    *)
(* and javac), or Rejected when the runner rejects (spawn error, or nonzero *)
(* exit where the runner rejects on it).                                    *)

Junk == Str(<<>>, "", "junk")

ExecCommands == {"npm -v", "node-gyp -v", "gem which xcodeproj", "xcodebuild -version",
                 "pod --version", "uname -a", "adb version", "mono --version",
                 "git --version", "gradle -v", "tns --version", "xcproj --version",
                 "javac -version"}
SpawnCommands == {"java -version", "android -h", "pod install"}
FsProbes == {"exists CoreFoundation", "exists MobileDevice", "exists cocoapods.xcworkspace",
             "extractZip", "temp.mkdirSync"}
RegistryReads == {"ProductName", "CurrentVersion", "CurrentBuild"}
ProcessReads == {"process.version", "process.env.CommonProgramFiles", "hostInfo.dotNetVersion"}
RequirementChecks == {"androidLocalBuildRequirements.checkRequirements",
                      "iosLocalBuildRequirements.checkRequirements"}
Externals == ExecCommands \cup SpawnCommands \cup FsProbes \cup RegistryReads \cup ProcessReads
                \cup RequirementChecks

Healthy(x) ==
    CASE x = "npm -v" -> Str(<<6, 4, 1>>, "", "npm\n")
      [] x = "node-gyp -v" -> Str(<<3, 8, 0>>, "", "node-gyp")
      [] x = "gem which xcodeproj" -> Str(<<>>, "", "gem\n")
      [] x = "xcodebuild -version" -> Str(<<8, 0>>, "", "Xcode")
      [] x = "pod --version" -> Str(<<1, 5, 3>>, "", "pod")
      [] x = "uname -a" -> Str(<<>>, "", "uname")
      [] x = "adb version" -> Str(<<1, 0, 39>>, "", "adb")
      [] x = "mono --version" -> Str(<<5, 10, 1>>, "", "mono")
      [] x = "git --version" -> Str(<<2, 17, 1>>, "", "git version")
      [] x = "gradle -v" -> Str(<<4, 10, 0>>, "", "Gradle")
      [] x = "tns --version" -> Str(<<5, 0, 0>>, "", "tns\n")
      [] x = "xcproj --version" -> Str(<<0, 2, 1>>, "", "xcproj")
      [] x = "javac -version" -> Str(<<1, 8, 0>>, "_211", "javac")
      [] x = "java -version" -> Str(<<1, 8, 0>>, "_211", "java version")
      [] x = "android -h" -> Str(<<>>, "", "android")
      [] x = "pod install" -> Str(<<>>, "", "exit 0")
      [] x \in {"exists CoreFoundation", "exists MobileDevice",
                "exists cocoapods.xcworkspace"} -> Bool(TRUE)
      [] x = "extractZip" -> Undef
      [] x = "temp.mkdirSync" -> Str(<<>>, "", "tmpdir")
      [] x = "ProductName" -> Str(<<>>, "", "Windows 10 Pro")
      [] x = "CurrentVersion" -> Str(<<6, 3>>, "", "")
      [] x = "CurrentBuild" -> Str(<<>>, "", "17134")
      [] x = "process.version" -> Str(<<8, 11, 3>>, "", "v")
      [] x = "process.env.CommonProgramFiles" -> Str(<<>>, "", "C:\\Program Files\\Common Files")
      [] x = "hostInfo.dotNetVersion" -> Str(<<4, 7, 2>>, "", "")
      [] x \in RequirementChecks -> Bool(TRUE)

Faulty(x) ==
    CASE x = "xcodebuild -version" -> {Rejected, Junk, Str(<<7, 2, 1>>, "", "Xcode")}
      [] x = "pod --version" -> {Rejected, Junk, Str(<<0, 39, 0>>, "", "pod"),
                                 Str(<<0, 38, 0>>, "", "pod"), Str(<<0, 39>>, "", "pod")}
      [] x = "mono --version" -> {Rejected, Junk, Str(<<3, 10, 0>>, "", "mono")}
      [] x = "tns --version" -> {Rejected, Str(<<>>, "", "\n")}
      [] x = "javac -version" -> {Rejected, Junk, Str(<<1, 7, 0>>, "_80", "javac")}
      [] x = "java -version" -> {Rejected, Junk, Str(<<11, 0, 2>>, "", "java version")}
      [] x = "android -h" -> {Rejected, Junk, Undef}
      [] x = "pod install" -> {Rejected, Str(<<>>, "", "exit 1")}
      [] x \in ExecCommands -> {Rejected, Junk}
      [] x \in {"exists CoreFoundation", "exists MobileDevice",
                "exists cocoapods.xcworkspace"} -> {Bool(FALSE)}
      [] x \in {"extractZip", "temp.mkdirSync"} -> {Rejected}
      [] x \in RegistryReads -> {Rejected, Undef}
      [] x = "process.version" -> {}
      [] x = "process.env.CommonProgramFiles" -> {Undef}
      [] x = "hostInfo.dotNetVersion" -> {Null}
      [] x \in RequirementChecks -> {Bool(FALSE)}

\* collaborators whose answer is not the healthy one
Broken(e) == {x \in Externals : e[x] # Unknown /\ e[x] # Healthy(x)}

\* the answers x may give in environment e: the one already given, or, the
\* first time, the healthy one or (within the bound) a faulty one
Answers(e, x, maxBroken) ==
    IF e[x] # Unknown THEN {e[x]}
    ELSE {Healthy(x)} \cup (IF Cardinality(Broken(e)) < maxBroken THEN Faulty(x) ELSE {})

\* ChildProcess.spawnFromEvent: resolves with the process result; rejects on a
\* spawn error, and on a nonzero exit code unless ignoreError is set
spawnFromEvent(r, ignoreError) ==
    IF r.t = "str" /\ r.s = "exit 1" /\ ~ignoreError THEN Error("exit 1") ELSE r

-----------------------------------------------------------------------------
(* What a frame does next: await an external collaborator, call an accessor *)
(* of SysInfo, return a value, or throw.                                    *)

Ext(x) == [k |-> "ext", a |-> x, v |-> Undef]
Call(a) == [k |-> "call", a |-> a, v |-> Undef]
Ret(v) == [k |-> "ret", a |-> "", v |-> v]
Throw(e) == [k |-> "throw", a |-> "", v |-> e]

\* an awaited call that rejected, outside any try block: the caller rejects
\* with the same error
AnyRejected(loc) == \E i \in 1..Len(loc) : IsRejected(loc[i])
FirstRejected(loc) == loc[CHOOSE i \in 1..Len(loc) : IsRejected(loc[i])]
Prefix(loc, n) == SubSeq(loc, 1, IF Len(loc) < n THEN Len(loc) ELSE n)

\* the accessors that go through getValueForProperty, and the cache field
\* each one names in its property function () => this.<field>
Accessors == {"getJavaVersion", "getJavaCompilerVersion", "getXcodeVersion", "getNpmVersion",
              "getNodeGypVersion", "getXcodeprojGemLocation", "isITunesInstalled",
              "getCocoaPodsVersion", "getOs", "getAdbVersion", "isAndroidInstalled",
              "getMonoVersion", "getGitVersion", "getGradleVersion", "getSysInfo",
              "isCocoaPodsWorkingCorrectly", "getNativeScriptCliVersion", "getXcprojInfo",
              "isCocoaPodsUpdateRequired"}

Property(a) ==
    CASE a = "getJavaVersion" -> [reads |-> "javaVerCache"]
      [] a = "getJavaCompilerVersion" -> [reads |-> "javaCompilerVerCache"]
      [] a = "getXcodeVersion" -> [reads |-> "xCodeVerCache"]
      [] a = "getNpmVersion" -> [reads |-> "npmVerCache"]
      [] a = "getNodeGypVersion" -> [reads |-> "nodeGypVerCache"]
      [] a = "getXcodeprojGemLocation" -> [reads |-> "xCodeprojGemLocationCache"]
      [] a = "isITunesInstalled" -> [reads |-> "iTunesInstalledCache"]
      [] a = "getCocoaPodsVersion" -> [reads |-> "cocoaPodsVerCache"]
      [] a = "getOs" -> [reads |-> "osCache"]
      [] a = "getAdbVersion" -> [reads |-> "adbVerCache"]
      [] a = "isAndroidInstalled" -> [reads |-> "androidInstalledCache"]
      [] a = "getMonoVersion" -> [reads |-> "monoVerCache"]
      [] a = "getGitVersion" -> [reads |-> "gitVerCache"]
      [] a = "getGradleVersion" -> [reads |-> "gradleVerCache"]
      [] a = "getSysInfo" -> [reads |-> "sysInfoCache"]
      [] a = "isCocoaPodsWorkingCorrectly" -> [reads |-> "isCocoaPodsWorkingCorrectlyCache"]
      [] a = "getNativeScriptCliVersion" -> [reads |-> "nativeScriptCliVersionCache"]
      [] a = "getXcprojInfo" -> [reads |-> "xcprojInfoCache"]
      [] a = "isCocoaPodsUpdateRequired" -> [reads |-> "isCocoaPodsUpdateRequiredCache"]

\* Helpers.getPropertyName: the name of the field a property function reads
getPropertyName(property) == property.reads

CacheFields == {getPropertyName(Property(a)) : a \in Accessors}

\* the cache fields as declared: four are initialised to null, the rest are
\* undefined
InitialCache ==
    [f \in CacheFields |->
        IF f \in {"iTunesInstalledCache", "androidInstalledCache",
                  "isCocoaPodsWorkingCorrectlyCache", "isCocoaPodsUpdateRequiredCache"}
        THEN Null ELSE Undef]

-----------------------------------------------------------------------------
(* SysInfo: the detection strategy of each accessor, as a function of the   *)
(* answers (loc) it has awaited so far.                                     *)

getJavaVersion(loc) ==
    IF Len(loc) = 0 THEN Ext("java -version")
    ELSE LET spawnResult == spawnFromEvent(loc[1], FALSE)
         IN  IF IsRejected(spawnResult) THEN Ret(Null)
             ELSE Ret(javaVersionRegexp(spawnResult))

getJavaCompilerVersion(loc) ==
    IF Len(loc) = 0 THEN Ext("javac -version")
    ELSE IF IsRejected(loc[1]) THEN Ret(Null)
         ELSE Ret(restOfLine(loc[1], "javac"))

getXcodeVersion(loc, host) ==
    IF host # "darwin" THEN Ret(Undef)
    ELSE IF Len(loc) = 0 THEN Ext("xcodebuild -version")
    ELSE LET output == execCommand(loc[1])
         IN  IF Truthy(output) /\ output.s = "Xcode"
             THEN Ret(getVersionFromString(output))
             ELSE Ret(Undef)

getNpmVersion(loc) ==
    IF Len(loc) = 0 THEN Ext("npm -v")
    ELSE LET output == execCommand(loc[1])
         IN  Ret(IF Truthy(output) THEN firstLine(output) ELSE Null)

getNodeGypVersion(loc) ==
    IF Len(loc) = 0 THEN Ext("node-gyp -v")
    ELSE LET output == execCommand(loc[1])
         IN  Ret(IF Truthy(output) THEN getVersionFromString(output) ELSE Null)

getXcodeprojGemLocation(loc) ==
    IF Len(loc) = 0 THEN Ext("gem which xcodeproj")
    ELSE LET output == execCommand(loc[1])
         IN  Ret(IF Truthy(output) THEN trim(output) ELSE Null)

\* on Windows the directories are joined to process.env.CommonProgramFiles (or
\* its x86 variant); path.join throws a TypeError when that is undefined
isITunesInstalled(loc, host) ==
    CASE host = "linux" -> Ret(Bool(FALSE))
      [] host = "windows" ->
            IF Len(loc) = 0 THEN Ext("process.env.CommonProgramFiles")
            ELSE IF loc[1] = Undef THEN Throw(TypeError)
            ELSE IF Len(loc) = 1 THEN Ext("exists CoreFoundation")
            ELSE IF ~Truthy(loc[2]) THEN Ret(loc[2])
            ELSE IF Len(loc) = 2 THEN Ext("exists MobileDevice")
            ELSE Ret(loc[3])
      [] host = "darwin" ->
            IF Len(loc) = 0 THEN Ext("exists CoreFoundation")
            ELSE IF ~Truthy(loc[1]) THEN Ret(loc[1])
            ELSE IF Len(loc) = 1 THEN Ext("exists MobileDevice")
            ELSE Ret(loc[2])

getCocoaPodsVersion(loc, host) ==
    IF host # "darwin" THEN Ret(Undef)
    ELSE IF Len(loc) = 0 THEN Ext("pod --version")
    ELSE LET output == execCommand(loc[1])
         IN  IF Truthy(output) /\ versionRegexpMatches(output)
             THEN Ret(versionRegexpMatch0(output))
             ELSE Ret(Undef)

\* winVer awaits three registry reads outside any try block; unixVer is
\* execCommand("uname -a")
getOs(loc, host) ==
    IF host = "windows"
    THEN IF AnyRejected(loc) THEN Throw(FirstRejected(loc))
         ELSE IF Len(loc) = 0 THEN Ext("ProductName")
         ELSE IF Len(loc) = 1 THEN Ext("CurrentVersion")
         ELSE IF Len(loc) = 2 THEN Ext("CurrentBuild")
         ELSE Ret(Str(loc[2].c, "", "winVer"))
    ELSE IF Len(loc) = 0 THEN Ext("uname -a")
         ELSE Ret(execCommand(loc[1]))

getAdbVersion(loc) ==
    IF Len(loc) = 0 THEN Ext("adb version")
    ELSE LET output == execCommand(loc[1])
         IN  Ret(IF Truthy(output) THEN getVersionFromString(output) ELSE Null)

isAndroidInstalled(loc) ==
    IF Len(loc) = 0 THEN Ext("android -h")
    ELSE LET output == spawnFromEvent(loc[1], TRUE)
         IN  IF IsRejected(output) THEN Ret(Null)
             ELSE IF output.t = "str" THEN Ret(Bool(output.s = "android"))
             ELSE Ret(Undef)

\* loc[1] is what monoVerRegExp.exec(output) found (see Received)
getMonoVersion(loc) ==
    IF Len(loc) = 0 THEN Ext("mono --version")
    ELSE Ret(loc[1])

getGitVersion(loc) ==
    IF Len(loc) = 0 THEN Ext("git --version")
    ELSE Ret(restOfLine(execCommand(loc[1]), "git version"))

getGradleVersion(loc) ==
    IF Len(loc) = 0 THEN Ext("gradle -v")
    ELSE Ret(restOfLine(execCommand(loc[1]), "Gradle"))

\* temp.mkdirSync and extractZip are outside the try block
isCocoaPodsWorkingCorrectly(loc, host) ==
    IF host # "darwin" THEN Ret(Bool(FALSE))
    ELSE IF AnyRejected(Prefix(loc, 2)) THEN Throw(FirstRejected(Prefix(loc, 2)))
    ELSE IF Len(loc) = 0 THEN Ext("temp.mkdirSync")
    ELSE IF Len(loc) = 1 THEN Ext("extractZip")
    ELSE IF Len(loc) = 2 THEN Ext("pod install")
    ELSE LET spawnResult == spawnFromEvent(loc[3], FALSE)
         IN  IF IsRejected(spawnResult) THEN Ret(Null)
             ELSE IF spawnResult.s # "exit 0" THEN Ret(Bool(FALSE))
             ELSE IF Len(loc) = 3 THEN Ext("exists cocoapods.xcworkspace")
             ELSE Ret(loc[4])

getNativeScriptCliVersion(loc) ==
    IF Len(loc) = 0 THEN Ext("tns --version")
    ELSE LET output == execCommand(loc[1])
         IN  Ret(IF Truthy(output) THEN trim(output) ELSE output)

\* cocoaPodsVersion && !!(semver.lt(cocoaPodsVersion, "1.0.0") &&
\*                        semver.gte(xcodeVersion, "7.3.0"))
shouldUseXcproj(cocoaPodsVersion, xcodeVersion) ==
    IF ~Truthy(cocoaPodsVersion) THEN cocoaPodsVersion
    ELSE LET lt == semverLt(cocoaPodsVersion, Str(<<1, 0, 0>>, "", ""))
         IN  IF IsRejected(lt) THEN lt
             ELSE IF ~lt.b THEN Bool(FALSE)
             ELSE semverGte(xcodeVersion, Str(<<7, 3, 0>>, "", ""))

getXcprojInfo(loc) ==
    IF AnyRejected(Prefix(loc, 2)) THEN Throw(FirstRejected(Prefix(loc, 2)))
    ELSE IF Len(loc) = 0 THEN Call("getCocoaPodsVersion")
    ELSE IF Len(loc) = 1 THEN Call("getXcodeVersion")
    ELSE LET use == shouldUseXcproj(loc[1], loc[2])
         IN  IF IsRejected(use) THEN Throw(use)
             ELSE IF ~Truthy(use)
                  THEN Ret(Obj([shouldUseXcproj |-> use, xcprojAvailable |-> Undef]))
             ELSE IF Len(loc) = 2 THEN Ext("xcproj --version")
             ELSE Ret(Obj([shouldUseXcproj |-> use,
                           xcprojAvailable |-> Bool(exec(loc[3]) # Null)]))

isCocoaPodsUpdateRequired(loc) ==
    IF Len(loc) = 0 THEN Call("getXcprojInfo")
    ELSE IF IsRejected(loc[1]) THEN Throw(loc[1])
    ELSE Ret(Bool(Truthy(loc[1].o.shouldUseXcproj) /\ ~Truthy(loc[1].o.xcprojAvailable)))

\* the fields of the snapshot in the order getSysInfo awaits them, each with
\* the accessor or collaborator that supplies it
SysInfoSteps ==
    << [field |-> "os", op |-> Call("getOs")],
       [field |-> "nodeVer", op |-> Ext("process.version")],
       [field |-> "npmVer", op |-> Call("getNpmVersion")],
       [field |-> "nodeGypVer", op |-> Call("getNodeGypVersion")],
       [field |-> "dotNetVer", op |-> Ext("hostInfo.dotNetVersion")],
       [field |-> "javaVer", op |-> Call("getJavaVersion")],
       [field |-> "javacVersion", op |-> Call("getJavaCompilerVersion")],
       [field |-> "xcodeVer", op |-> Call("getXcodeVersion")],
       [field |-> "xcodeprojGemLocation", op |-> Call("getXcodeprojGemLocation")],
       [field |-> "itunesInstalled", op |-> Call("isITunesInstalled")],
       [field |-> "cocoaPodsVer", op |-> Call("getCocoaPodsVersion")],
       [field |-> "adbVer", op |-> Call("getAdbVersion")],
       [field |-> "androidInstalled", op |-> Call("isAndroidInstalled")],
       [field |-> "monoVer", op |-> Call("getMonoVersion")],
       [field |-> "gitVer", op |-> Call("getGitVersion")],
       [field |-> "gradleVer", op |-> Call("getGradleVersion")],
       [field |-> "isCocoaPodsWorkingCorrectly", op |-> Call("isCocoaPodsWorkingCorrectly")],
       [field |-> "nativeScriptCliVersion", op |-> Call("getNativeScriptCliVersion")],
       [field |-> "isCocoaPodsUpdateRequired", op |-> Call("isCocoaPodsUpdateRequired")] >>

SysInfoFields == {SysInfoSteps[i].field : i \in 1..Len(SysInfoSteps)}
StepOfField(f) == CHOOSE i \in 1..Len(SysInfoSteps) : SysInfoSteps[i].field = f

\* os.platform() on each host family
platform(host) == IF host = "windows" THEN "win32" ELSE host

\* the snapshot record; getNodeVersion is getVersionFromString(process.version)
sysInfoData(loc, host) ==
    [f \in SysInfoFields \cup {"platform", "shell", "procArch"} |->
        CASE f = "platform" -> Str(<<>>, "", platform(host))
          [] f = "shell" -> Str(<<>>, "", "shell")
          [] f = "procArch" -> Str(<<>>, "", "x64")
          [] f = "nodeVer" -> getVersionFromString(loc[StepOfField(f)])
          [] OTHER -> loc[StepOfField(f)]]

\* getSysInfo computing the fields of the snapshot from the last to the first
getSysInfoLastFieldFirst(loc, host) ==
    IF AnyRejected(loc) THEN Throw(FirstRejected(loc))
    ELSE IF Len(loc) < Len(SysInfoSteps) THEN SysInfoSteps[Len(SysInfoSteps) - Len(loc)].op
    ELSE Ret(Obj(sysInfoData(loc, host)))

getSysInfo(loc, host) ==
    IF AnyRejected(loc) THEN Throw(FirstRejected(loc))
    ELSE IF Len(loc) < Len(SysInfoSteps) THEN SysInfoSteps[Len(loc) + 1].op
    ELSE Ret(Obj(sysInfoData(loc, host)))

Strategy(fn, loc, host) ==
    CASE fn = "getJavaVersion" -> getJavaVersion(loc)
      [] fn = "getJavaCompilerVersion" -> getJavaCompilerVersion(loc)
      [] fn = "getXcodeVersion" -> getXcodeVersion(loc, host)
      [] fn = "getNpmVersion" -> getNpmVersion(loc)
      [] fn = "getNodeGypVersion" -> getNodeGypVersion(loc)
      [] fn = "getXcodeprojGemLocation" -> getXcodeprojGemLocation(loc)
      [] fn = "isITunesInstalled" -> isITunesInstalled(loc, host)
      [] fn = "getCocoaPodsVersion" -> getCocoaPodsVersion(loc, host)
      [] fn = "getOs" -> getOs(loc, host)
      [] fn = "getAdbVersion" -> getAdbVersion(loc)
      [] fn = "isAndroidInstalled" -> isAndroidInstalled(loc)
      [] fn = "getMonoVersion" -> getMonoVersion(loc)
      [] fn = "getGitVersion" -> getGitVersion(loc)
      [] fn = "getGradleVersion" -> getGradleVersion(loc)
      [] fn = "getSysInfo" -> getSysInfo(loc, host)
      [] fn = "isCocoaPodsWorkingCorrectly" -> isCocoaPodsWorkingCorrectly(loc, host)
      [] fn = "getNativeScriptCliVersion" -> getNativeScriptCliVersion(loc)
      [] fn = "getXcprojInfo" -> getXcprojInfo(loc)
      [] fn = "isCocoaPodsUpdateRequired" -> isCocoaPodsUpdateRequired(loc)

\* what a frame keeps of a collaborator's answer r: getMonoVersion keeps what
\* monoVerRegExp.exec found in the command's output
Received(fn, r, lastIndex) ==
    IF fn = "getMonoVersion" THEN monoExecResult(execCommand(r), lastIndex) ELSE r

-----------------------------------------------------------------------------
(* lib/index.ts and Doctor: construction *)

\* the private fields the Doctor constructor declares, in parameter order
DoctorParameters ==
    <<"sysInfo", "hostInfo", "androidLocalBuildRequirements", "iosLocalBuildRequirements",
      "helpers">>

\* the objects lib/index.ts passes to new Doctor(...), in argument order
IndexArguments ==
    <<"androidLocalBuildRequirements", "helpers", "hostInfo", "iOSLocalBuildRequirements",
      "sysInfo">>

\* a caller that passes each collaborator in the position of its role
RoleArguments ==
    <<"sysInfo", "hostInfo", "androidLocalBuildRequirements", "iOSLocalBuildRequirements",
      "helpers">>

\* TypeScript parameter properties: field i holds argument i
NewDoctor(arguments) ==
    [f \in {DoctorParameters[i] : i \in 1..Len(DoctorParameters)} |->
        arguments[CHOOSE i \in 1..Len(DoctorParameters) : DoctorParameters[i] = f]]

\* the class of each object lib/index.ts constructs
ClassOf(object) ==
    CASE object = "sysInfo" -> "SysInfo"
      [] object = "hostInfo" -> "HostInfo"
      [] object = "helpers" -> "Helpers"
      [] object = "androidLocalBuildRequirements" -> "AndroidLocalBuildRequirements"
      [] object = "iOSLocalBuildRequirements" -> "IosLocalBuildRequirements"

\* the members the program uses of each class
Members(class) ==
    CASE class = "SysInfo" -> Accessors \cup {"getNodeVersion", "setShouldCacheSysInfo"}
      [] class = "HostInfo" -> {"isDarwin", "isLinux", "isWindows", "isWindows64", "dotNetVersion"}
      [] class = "Helpers" -> {"getPropertyName"}
      [] class = "AndroidLocalBuildRequirements" -> {"checkRequirements"}
      [] class = "IosLocalBuildRequirements" -> {"checkRequirements"}

HasMember(object, member) == member \in Members(ClassOf(object))

-----------------------------------------------------------------------------
(* Doctor.canExecuteLocalBuild.  A platform name is a sequence of characters. *)

Upper == <<"A", "B", "D", "I", "N", "O", "R", "S">>
Lower == <<"a", "b", "d", "i", "n", "o", "r", "s">>
\* String.prototype.toLocaleLowerCase, character by character
toLocaleLowerCase(str) ==
    [i \in 1..Len(str) |->
        IF \E j \in 1..Len(Upper) : Upper[j] = str[i]
        THEN Lower[CHOOSE j \in 1..Len(Upper) : Upper[j] = str[i]]
        ELSE str[i]]

ANDROID_PLATFORM_NAME == <<"A", "n", "d", "r", "o", "i", "d">>
IOS_PLATFORM_NAME == <<"i", "O", "S">>
SUPPORTED_PLATFORMS == <<ANDROID_PLATFORM_NAME, IOS_PLATFORM_NAME>>

RECURSIVE reduceSupported(_, _, _)
\* SUPPORTED_PLATFORMS.reduce((prevValue, currentValue) => ..., false)
reduceSupported(platformName, i, prevValue) ==
    IF i > Len(SUPPORTED_PLATFORMS) THEN prevValue
    ELSE reduceSupported(platformName, i + 1,
            IF ~prevValue
            THEN toLocaleLowerCase(SUPPORTED_PLATFORMS[i]) = toLocaleLowerCase(platformName)
            ELSE prevValue)

isPlatformSupported(platformName) == reduceSupported(platformName, 1, FALSE)

\* the error validatePlatform throws, or Undef when it returns
validatePlatform(platformName) ==
    IF platformName = <<>> THEN Error("You must specify a platform.")
    ELSE IF ~isPlatformSupported(platformName)
         THEN Error("Platform is not supported. The supported platforms are: Android, iOS")
         ELSE Undef

\* calling object.checkRequirements(): a TypeError when the object has no such
\* method
checkRequirements(object, which) ==
    IF HasMember(object, "checkRequirements") THEN Ext(which) ELSE Throw(TypeError)

canExecuteLocalBuild(platformName, loc, doc) ==
    LET invalid == validatePlatform(platformName)
    IN  IF IsRejected(invalid) THEN Throw(invalid)
        ELSE IF AnyRejected(loc) THEN Throw(FirstRejected(loc))
        ELSE IF Len(loc) = 1 THEN Ret(loc[1])
        ELSE IF toLocaleLowerCase(platformName) = toLocaleLowerCase(ANDROID_PLATFORM_NAME)
             THEN checkRequirements(doc.androidLocalBuildRequirements,
                                    "androidLocalBuildRequirements.checkRequirements")
        ELSE IF toLocaleLowerCase(platformName) = toLocaleLowerCase(IOS_PLATFORM_NAME)
             THEN checkRequirements(doc.iosLocalBuildRequirements,
                                    "iosLocalBuildRequirements.checkRequirements")
        ELSE Ret(Bool(FALSE))

-----------------------------------------------------------------------------
(* Doctor.getWarnings.  A warning is named by its warning text.             *)

AdbWarning == "WARNING: adb from the Android SDK is not installed or is not configured properly. "
AndroidSdkWarning == "WARNING: The Android SDK is not installed or is not configured properly."
XcodeWarning == "WARNING: Xcode is not installed or is not configured properly."
XcodeprojWarning == "WARNING: xcodeproj gem is not installed or is not configured properly."
CocoaPodsWarning == "WARNING: CocoaPods is not installed or is not configured properly."
CocoaPodsProblemWarning == "WARNING: There was a problem with CocoaPods"
CocoaPodsOldWarning == "WARNING: Your current CocoaPods version is earlier than 0.38.2."
MonoWarning == "WARNING: Mono 3.12 or later is not installed or not configured properly."
IosNote == "NOTE: You can develop for iOS only on Mac OS X systems."
ITunesWarning == "WARNING: iTunes is not installed."
JdkWarning == "WARNING: The Java Development Kit (JDK) is not installed or is not configured properly."
GitWarning == "WARNING: Git is not installed or not configured properly."

MIN_SUPPORTED_POD_VERSION == Str(<<0, 38, 2>>, "", "")

\* reading a property of an object: undefined when the object has none of
\* that name
Get(o, name) == IF name \in DOMAIN o THEN o[name] ELSE Undef

\* if (condition) result.push(warning)
PushIf(condition, warning) == IF condition THEN <<warning>> ELSE <<>>

\* a host test that takes every host for darwin
doctorIsDarwinOnAnyHost(doc, host) == HasMember(doc.hostInfo, "isDarwin")
\* this.hostInfo.isDarwin, read from whatever object the field holds
doctorIsDarwin(doc, host) == HasMember(doc.hostInfo, "isDarwin") /\ host = "darwin"

\* if (sysInfoData.xcodeVer && sysInfoData.cocoapodVer): the functional check
\* is awaited
\* the test of getWarnings reading the field the snapshot has
awaitsCocoaPodsCheckOfCocoaPodsVer(data, doc, host) ==
    doctorIsDarwin(doc, host) /\ Truthy(Get(data, "xcodeVer")) /\ Truthy(Get(data, "cocoaPodsVer"))

awaitsCocoaPodsCheck(data, doc, host) ==
    doctorIsDarwin(doc, host) /\ Truthy(Get(data, "xcodeVer")) /\ Truthy(Get(data, "cocoapodVer"))

\* !sysInfoData.monoVer || semver.lt(sysInfoData.monoVer, "3.12.0")
monoTooOld(data) ==
    IF ~Truthy(Get(data, "monoVer")) THEN Bool(TRUE)
    ELSE semverLt(Get(data, "monoVer"), Str(<<3, 12, 0>>, "", ""))

\* the warnings pushed inside if (this.hostInfo.isDarwin) { ... }
darwinWarnings(data, loc, doc, host) ==
    PushIf(~Truthy(Get(data, "xcodeVer")), XcodeWarning)
    \o PushIf(~Truthy(Get(data, "xcodeprojGemLocation")), XcodeprojWarning)
    \o PushIf(~Truthy(Get(data, "cocoapodVer")), CocoaPodsWarning)
    \o PushIf(awaitsCocoaPodsCheck(data, doc, host) /\ ~Truthy(loc[2]), CocoaPodsProblemWarning)
    \o PushIf(/\ Truthy(Get(data, "cocoapodVer"))
              /\ semverValid(Get(data, "cocoapodVer"))
              /\ semverLt(Get(data, "cocoapodVer"), MIN_SUPPORTED_POD_VERSION).b,
              CocoaPodsOldWarning)
    \o PushIf(monoTooOld(data).b, MonoWarning)

\* a getWarnings that checks Git before everything else
warningsForGitFirst(data, loc, doc, host) ==
    PushIf(~Truthy(Get(data, "gitVer")), GitWarning)
    \o PushIf(~Truthy(Get(data, "adbVer")), AdbWarning)
    \o PushIf(~Truthy(Get(data, "androidInstalled")), AndroidSdkWarning)
    \o (IF doctorIsDarwin(doc, host) THEN darwinWarnings(data, loc, doc, host) ELSE <<IosNote>>)
    \o PushIf(~Truthy(Get(data, "itunesInstalled")), ITunesWarning)
    \o PushIf(~Truthy(Get(data, "javaVer")), JdkWarning)
\* the list getWarnings returns for the snapshot data
warningsFor(data, loc, doc, host) ==
    PushIf(~Truthy(Get(data, "adbVer")), AdbWarning)
    \o PushIf(~Truthy(Get(data, "androidInstalled")), AndroidSdkWarning)
    \o (IF doctorIsDarwin(doc, host) THEN darwinWarnings(data, loc, doc, host) ELSE <<IosNote>>)
    \o PushIf(~Truthy(Get(data, "itunesInstalled")), ITunesWarning)
    \o PushIf(~Truthy(Get(data, "javaVer")), JdkWarning)
    \o PushIf(~Truthy(Get(data, "gitVer")), GitWarning)

getWarnings(loc, doc, host) ==
    IF Len(loc) = 0
    THEN IF HasMember(doc.sysInfo, "getSysInfo") THEN Call("getSysInfo") ELSE Throw(TypeError)
    ELSE IF AnyRejected(loc) THEN Throw(FirstRejected(loc))
    ELSE LET data == loc[1].o
         IN  IF awaitsCocoaPodsCheck(data, doc, host) /\ Len(loc) = 1
             THEN Call("isCocoaPodsWorkingCorrectly")
             ELSE IF doctorIsDarwin(doc, host) /\ IsRejected(monoTooOld(data))
                  THEN Throw(TypeError)
                  ELSE Ret(Obj(warningsFor(data, loc, doc, host)))

-----------------------------------------------------------------------------
(* The state machine *)

Hosts == {"darwin", "linux", "windows"}

Frame(fn, mode, arg) == [fn |-> fn, mode |-> mode, arg |-> arg, loc |-> <<>>]

NextOp(frame) ==
    CASE frame.fn \in Accessors -> Strategy(frame.fn, frame.loc, hostInfo)
      [] frame.fn = "getWarnings" -> getWarnings(frame.loc, doctor, hostInfo)
      [] frame.fn = "canExecuteLocalBuild" -> canExecuteLocalBuild(frame.arg, frame.loc, doctor)

Top(t) == stacks[t][Len(stacks[t])]
Busy(t) == stacks[t] # <<>>
Idle == \A t \in Tasks : ~Busy(t)
Started == Len(log) + Cardinality({t \in Tasks : Busy(t)})

\* getValueForProperty, lines 318-322: the cached value is returned when
\* caching is on and the field is neither undefined nor null
usesCachedValue(sc, cachedValue) == sc /\ ~(cachedValue = Undef \/ cachedValue = Null)
\* a getValueForProperty that stores the result whatever shouldCache was
storesResultAlways(mode) == mode \in {"cache", "nocache"}
\* getValueForProperty, lines 323-325 and 330: the result is stored only by a
\* call that found caching on
storesResult(mode) == mode = "cache"

cachedValueOf(a) == cache[getPropertyName(Property(a))]
Mode(sc) == IF sc THEN "cache" ELSE "nocache"

Bump(counter, a) ==
    [counter EXCEPT ![getPropertyName(Property(a))] = @ + 1]

\* the stack stk with value v handed to its innermost frame
Resumed(stk, v) ==
    [stk EXCEPT ![Len(stk)].loc = Append(@, v)]

LogEntry(fn, arg, mode, result) == [fn |-> fn, arg |-> arg, mode |-> mode, result |-> result]

\* SysInfo.setShouldCacheSysInfo
\* a setShouldCacheSysInfo that also empties the cache fields
setShouldCacheSysInfoInvalidating(b) ==
    /\ Idle
    /\ b # shouldCache
    /\ shouldCache' = b
    /\ everUncached' = (everUncached \/ ~b)
    /\ cache' = InitialCache
    /\ UNCHANGED <<hostInfo, env, monoLastIndex, stacks, runs, calls, probes, log,
                   doctor, android, tempDirectories>>

setShouldCacheSysInfo(b) ==
    /\ Idle
    /\ b # shouldCache
    /\ shouldCache' = b
    /\ everUncached' = (everUncached \/ ~b)
    /\ UNCHANGED <<hostInfo, env, cache, monoLastIndex, stacks, runs, calls, probes, log,
                   doctor, android, tempDirectories>>

\* a client calls accessor a of SysInfo: getValueForProperty up to its await
CallAccessor(t, a) ==
    /\ Idle
    /\ Started < MaxCalls
    /\ calls' = Bump(calls, a)
    /\ IF usesCachedValue(shouldCache, cachedValueOf(a))
       THEN /\ log' = Append(log, LogEntry(a, <<>>, "cache", cachedValueOf(a)))
            /\ UNCHANGED <<stacks, runs>>
       ELSE /\ stacks' = [stacks EXCEPT ![t] = <<Frame(a, Mode(shouldCache), <<>>)>>]
            /\ runs' = Bump(runs, a)
            /\ UNCHANGED log
    /\ UNCHANGED <<hostInfo, env, shouldCache, cache, monoLastIndex, probes, everUncached,
                   doctor, android, tempDirectories>>

\* the innermost frame of task t calls an accessor of SysInfo
SubCall(t) ==
    /\ Busy(t)
    /\ NextOp(Top(t)).k = "call"
    /\ LET a == NextOp(Top(t)).a
       IN  /\ calls' = Bump(calls, a)
           /\ IF usesCachedValue(shouldCache, cachedValueOf(a))
              THEN /\ stacks' = [stacks EXCEPT ![t] = Resumed(@, cachedValueOf(a))]
                   /\ UNCHANGED runs
              ELSE /\ stacks' = [stacks EXCEPT ![t] = Append(@, Frame(a, Mode(shouldCache), <<>>))]
                   /\ runs' = Bump(runs, a)
    /\ UNCHANGED <<hostInfo, env, shouldCache, cache, monoLastIndex, probes, everUncached,
                   log, doctor, android, tempDirectories>>

\* the external collaborator the innermost frame of task t awaits answers
ExtDone(t, maxBroken) ==
    /\ Busy(t)
    /\ NextOp(Top(t)).k = "ext"
    /\ LET x == NextOp(Top(t)).a
       IN  \E r \in Answers(env, x, maxBroken) :
              /\ env' = [env EXCEPT ![x] = r]
              /\ stacks' = [stacks EXCEPT ![t] = Resumed(@, Received(Top(t).fn, r, monoLastIndex))]
              /\ monoLastIndex' =
                    IF Top(t).fn = "getMonoVersion"
                    THEN monoExecLastIndex(execCommand(r), monoLastIndex)
                    ELSE monoLastIndex
              /\ tempDirectories' =
                    IF x = "temp.mkdirSync" /\ ~IsRejected(r)
                    THEN tempDirectories + 1
                    ELSE tempDirectories
    /\ probes' = IF Top(t).fn \in Accessors THEN Bump(probes, Top(t).fn) ELSE probes
    /\ UNCHANGED <<hostInfo, shouldCache, cache, runs, calls, everUncached, log, doctor,
                   android>>

\* the innermost frame of task t returns or throws: getValueForProperty
\* stores the result, and the caller (or the client) receives it
Return(t) ==
    /\ Busy(t)
    /\ NextOp(Top(t)).k \in {"ret", "throw"}
    /\ LET frame == Top(t)
           op == NextOp(frame)
           rest == SubSeq(stacks[t], 1, Len(stacks[t]) - 1)
       IN  /\ cache' = IF op.k = "ret" /\ storesResult(frame.mode)
                       THEN [cache EXCEPT ![getPropertyName(Property(frame.fn))] = op.v]
                       ELSE cache
           /\ IF rest = <<>>
              THEN /\ stacks' = [stacks EXCEPT ![t] = <<>>]
                   /\ log' = Append(log, LogEntry(frame.fn, frame.arg, frame.mode, op.v))
              ELSE /\ stacks' = [stacks EXCEPT ![t] = Resumed(rest, op.v)]
                   /\ UNCHANGED log
    /\ UNCHANGED <<hostInfo, env, shouldCache, monoLastIndex, runs, calls, probes,
                   everUncached, doctor, android, tempDirectories>>

\* the file system under ANDROID_HOME: whether the root exists, the paths under
\* it that exist, and what three of its directories list
Directory(root, paths, platforms, buildTools, appcompat) ==
    [root |-> root, paths |-> paths, platforms |-> platforms, buildTools |-> buildTools,
     appcompat |-> appcompat]
NoDirectory == Directory(FALSE, {}, <<>>, <<>>, <<>>)

\* an AndroidToolsInfo constructed with ANDROID_HOME unset
InitAndroidToolsInfo ==
    /\ androidHome = Undef
    /\ fs = NoDirectory
    /\ toolsInfo = Undef

InitSysInfo ==
    /\ env = [x \in Externals |-> Unknown]
    /\ shouldCache = TRUE
    /\ cache = InitialCache
    /\ monoLastIndex = 0
    /\ stacks = [t \in Tasks |-> <<>>]
    /\ runs = [f \in CacheFields |-> 0]
    /\ calls = [f \in CacheFields |-> 0]
    /\ probes = [f \in CacheFields |-> 0]
    /\ everUncached = FALSE
    /\ log = <<>>
    /\ tempDirectories = 0

Init ==
    /\ hostInfo \in Hosts
    /\ doctor = NewDoctor(IndexArguments)
    /\ InitSysInfo
    /\ InitAndroidToolsInfo

Next ==
    \/ \E b \in BOOLEAN : setShouldCacheSysInfo(b)
    \/ \E a \in Accessors : CallAccessor(1, a)
    \/ SubCall(1)
    \/ ExtDone(1, MaxBroken)
    \/ Return(1)

Spec == Init /\ [][Next]_vars

-----------------------------------------------------------------------------
(* SysInfo, called again while a call is in flight *)

\* a client calls accessor a of SysInfo on task t, whatever the other task
\* is awaiting: getValueForProperty up to its await
CallAccessorOverlapping(t, a) ==
    /\ ~Busy(t)
    /\ Started < MaxCalls
    /\ calls' = Bump(calls, a)
    /\ IF usesCachedValue(shouldCache, cachedValueOf(a))
       THEN /\ log' = Append(log, LogEntry(a, <<>>, "cache", cachedValueOf(a)))
            /\ UNCHANGED <<stacks, runs>>
       ELSE /\ stacks' = [stacks EXCEPT ![t] = <<Frame(a, Mode(shouldCache), <<>>)>>]
            /\ runs' = Bump(runs, a)
            /\ UNCHANGED log
    /\ UNCHANGED <<hostInfo, env, shouldCache, cache, monoLastIndex, probes, everUncached,
                   doctor, android, tempDirectories>>

\* the accessors the overlapping clients call: all but the snapshot
OverlapAccessors == Accessors \ {"getSysInfo"}

NextOverlap ==
    \E t \in Tasks :
        \/ \E a \in OverlapAccessors : CallAccessorOverlapping(t, a)
        \/ SubCall(t)
        \/ ExtDone(t, MaxBrokenOverlap)
        \/ Return(t)

SpecOverlap == Init /\ [][NextOverlap]_vars

-----------------------------------------------------------------------------
(* The Doctor, called by a client that awaits each call *)

PlatformNames ==
    { <<>>, ANDROID_PLATFORM_NAME, IOS_PLATFORM_NAME,
      <<"A", "N", "D", "R", "O", "I", "D">>, <<"a", "n", "d", "r", "o", "i", "d">>,
      <<"I", "O", "S">>, <<"i", "o", "s">>,
      <<"b", "b">>, <<"i", "O">>, <<"A", "n", "d", "r", "o", "i", "d", "s">> }

\* a client calls doctor.getWarnings()
CallGetWarnings(t) ==
    /\ Idle
    /\ Started < MaxDoctorCalls
    /\ stacks' = [stacks EXCEPT ![t] = <<Frame("getWarnings", "plain", <<>>)>>]
    /\ UNCHANGED <<hostInfo, env, shouldCache, cache, monoLastIndex, runs, calls, probes,
                   everUncached, log, doctor, android, tempDirectories>>

\* a client calls doctor.canExecuteLocalBuild(platformName)
CallCanExecuteLocalBuild(t, platformName) ==
    /\ Idle
    /\ Started < MaxDoctorCalls
    /\ stacks' = [stacks EXCEPT ![t] = <<Frame("canExecuteLocalBuild", "plain", platformName)>>]
    /\ UNCHANGED <<hostInfo, env, shouldCache, cache, monoLastIndex, runs, calls, probes,
                   everUncached, log, doctor, android, tempDirectories>>

InitDoctor ==
    /\ hostInfo \in Hosts
    /\ doctor \in {NewDoctor(IndexArguments), NewDoctor(RoleArguments)}
    /\ InitSysInfo
    /\ InitAndroidToolsInfo

NextDoctor ==
    \/ \E b \in BOOLEAN : setShouldCacheSysInfo(b)
    \/ CallGetWarnings(1)
    \/ \E p \in PlatformNames : CallCanExecuteLocalBuild(1, p)
    \/ SubCall(1)
    \/ ExtDone(1, MaxBrokenDoctor)
    \/ Return(1)

SpecDoctor == InitDoctor /\ [][NextDoctor]_vars

-----------------------------------------------------------------------------
(* Strings as character codes, for sorting and substring search.  A name is *)
(* the text s, then the components c joined by dots, then the text x.       *)

RECURSIVE Digits(_)
\* the decimal digits of n as character codes
Digits(n) == IF n < 10 THEN <<48 + n>> ELSE Digits(n \div 10) \o <<48 + (n % 10)>>

TextCodes(text) ==
    CASE text = "" -> <<>>
      [] text = "android-" -> <<97, 110, 100, 114, 111, 105, 100, 45>>
      [] text = "-rc" -> <<45, 114, 99>>
      [] text = "_211" -> <<95, 50, 49, 49>>
      [] text = "_80" -> <<95, 56, 48>>
      [] text = "javac " -> <<106, 97, 118, 97, 99, 32>>

RECURSIVE JoinDots(_)
JoinDots(c) ==
    IF c = <<>> THEN <<>>
    ELSE IF Len(c) = 1 THEN Digits(c[1])
    ELSE Digits(c[1]) \o <<46>> \o JoinDots(Tail(c))

Codes(v) == TextCodes(v.s) \o JoinDots(v.c) \o TextCodes(v.x)

\* the order of Array.prototype.sort() without a comparator: by code units
RECURSIVE CodesLess(_, _)
CodesLess(a, b) ==
    IF b = <<>> THEN FALSE
    ELSE IF a = <<>> THEN TRUE
    ELSE IF a[1] # b[1] THEN a[1] < b[1]
    ELSE CodesLess(Tail(a), Tail(b))

RECURSIVE sort(_)
\* Array.prototype.sort(): insertion of the head into the sorted tail
sort(seq) ==
    IF seq = <<>> THEN <<>>
    ELSE LET rest == sort(Tail(seq))
             before == SelectSeq(rest, LAMBDA e : CodesLess(Codes(e), Codes(seq[1])))
             after == SelectSeq(rest, LAMBDA e : ~CodesLess(Codes(e), Codes(seq[1])))
         IN  before \o <<seq[1]>> \o after

\* String.prototype.indexOf(needle) !== -1
Contains(hay, needle) ==
    \E i \in 0..(Len(hay) - Len(needle)) : SubSeq(hay, i + 1, i + Len(needle)) = needle

\* Array.prototype.indexOf(e) >= 0
indexOfFound(list, e) == \E i \in 1..Len(list) : list[i] = e

-----------------------------------------------------------------------------
(* AndroidToolsInfo.  home is process.env.ANDROID_HOME as read at            *)
(* construction; dir is the SDK directory tree: whether the root exists, the      *)
(* paths under it that exist, and the listing of three directories.         *)

Target(n) == Str(<<n>>, "", "android-")

SUPPORTED_TARGETS ==
    <<Target(17), Target(18), Target(19), Target(21), Target(22), Target(23), Target(24),
      Target(25)>>
MIN_REQUIRED_COMPILE_TARGET == 22
REQUIRED_BUILD_TOOLS_RANGE_PREFIX == 23

\* path.join(androidHome, ...): a TypeError unless androidHome is a string
pathJoin(home, relative) == IF home.t = "str" THEN Str(<<>>, "", relative) ELSE TypeError

\* dir.exists of a path under the SDK root ("" is the root itself)
fsExists(dir, relative) == dir.root /\ (relative = "" \/ relative \in dir.paths)

getInstalledTargets(home, dir) ==
    LET pathToInstalledTargets == pathJoin(home, "platforms")
    IN  IF IsRejected(pathToInstalledTargets) THEN <<>>
        ELSE IF ~fsExists(dir, "platforms") THEN <<>>
        ELSE dir.platforms

RECURSIVE forEachTargetKeepFirst(_, _, _, _)
\* a loop that keeps the first supported target it finds installed
forEachTargetKeepFirst(sorted, i, installedTargets, latest) ==
    IF i > Len(sorted) THEN latest
    ELSE forEachTargetKeepFirst(sorted, i + 1, installedTargets,
            IF indexOfFound(installedTargets, sorted[i]) /\ latest = Undef
            THEN sorted[i] ELSE latest)
RECURSIVE forEachTarget(_, _, _, _)
\* sortedAndroidToolsInfo.forEach(s => { if (installedTargets.indexOf(s) >= 0)
\*     latestValidAndroidTarget = s; })
forEachTarget(sorted, i, installedTargets, latest) ==
    IF i > Len(sorted) THEN latest
    ELSE forEachTarget(sorted, i + 1, installedTargets,
            IF indexOfFound(installedTargets, sorted[i]) THEN sorted[i] ELSE latest)

getLatestValidAndroidTarget(home, dir) ==
    forEachTarget(sort(SUPPORTED_TARGETS), 1, getInstalledTargets(home, dir), Undef)

\* parseInt(androidSdkString.replace("android-", ""))
parseAndroidSdkString(name) ==
    IF name.s \in {"", "android-"} /\ Len(name.c) >= 1 THEN Num(name.c[1]) ELSE NaN

getCompileSdk(home, dir) ==
    LET latestValidAndroidTarget == getLatestValidAndroidTarget(home, dir)
    IN  IF Truthy(latestValidAndroidTarget)
        THEN LET integerVersion == parseAndroidSdkString(latestValidAndroidTarget)
             IN  IF Truthy(integerVersion) /\ integerVersion.c[1] >= MIN_REQUIRED_COMPILE_TARGET
                 THEN integerVersion
                 ELSE Undef
        ELSE Undef

getMaxSupportedVersion ==
    parseAndroidSdkString(sort(SUPPORTED_TARGETS)[Len(SUPPORTED_TARGETS)])

\* a version range ">=<ge> <op><major>" as semver reads it: ">=23" is
\* >=23.0.0, "<=25" is <26.0.0, "<26" is <26.0.0
Range(ge, op, major) == [ge |-> ge, op |-> op, major |-> major]
satisfies(version, range) ==
    /\ ~CompsLess(version.c, <<range.ge, 0, 0>>)
    /\ CompsLess(version.c, <<IF range.op = "<=" THEN range.major + 1 ELSE range.major, 0, 0>>)

RECURSIVE maxSatisfyingFrom(_, _, _, _)
\* semver.maxSatisfying: the first of the greatest versions in the range
maxSatisfyingFrom(versions, i, range, max) ==
    IF i > Len(versions) THEN max
    ELSE maxSatisfyingFrom(versions, i + 1, range,
            IF satisfies(versions[i], range) /\ (max = Null \/ CompsLess(max.c, versions[i].c))
            THEN versions[i] ELSE max)
maxSatisfying(versions, range) == maxSatisfyingFrom(versions, 1, range, Null)

\* VERSION_REGEX = /((\d+\.){2}\d+)/: group 1 of the match in a directory name
dirVersion(dirName) ==
    IF Len(dirName.c) >= 3 THEN Str(<<dirName.c[1], dirName.c[2], dirName.c[3]>>, "", "")
    ELSE Null

getMatchingDir(exists, subDirs, versionRange) ==
    IF exists
    THEN LET subDirsVersions ==
                 SelectSeq([i \in 1..Len(subDirs) |-> dirVersion(subDirs[i])],
                           LAMBDA v : Truthy(v))
             version == maxSatisfying(subDirsVersions, versionRange)
         IN  IF Truthy(version)
             THEN LET found == {i \in 1..Len(subDirs) : Contains(Codes(subDirs[i]), Codes(version))}
                  IN  IF found = {} THEN Undef
                      ELSE subDirs[CHOOSE i \in found : \A j \in found : i <= j]
             ELSE Undef
    ELSE Undef

getBuildToolsRange ==
    Range(REQUIRED_BUILD_TOOLS_RANGE_PREFIX, "<=", getMaxSupportedVersion.c[1])

getBuildToolsVersion(home, dir) ==
    IF Truthy(home)
    THEN getMatchingDir(fsExists(dir, "build-tools"), dir.buildTools, getBuildToolsRange)
    ELSE Undef

\* `>=${compileSdkVersion} <${compileSdkVersion + 1}`, or undefined
getAppCompatRange(home, dir) ==
    LET compileSdkVersion == getCompileSdk(home, dir)
    IN  IF Truthy(compileSdkVersion)
        THEN Obj(Range(compileSdkVersion.c[1], "<", compileSdkVersion.c[1] + 1))
        ELSE Undef

AppCompatPath == "extras/android/m2repository/com/android/support/appcompat-v7"

getAndroidSupportRepositoryVersion(home, dir) ==
    LET requiredAppCompatRange == getAppCompatRange(home, dir)
    IN  IF Truthy(home) /\ Truthy(requiredAppCompatRange)
        THEN getMatchingDir(fsExists(dir, AppCompatPath), dir.appcompat, requiredAppCompatRange.o)
        ELSE Undef

\* the infoData object getToolsInfo builds when this.toolsInfo is not set
newToolsInfo(home, dir) ==
    Obj([androidHomeEnvVar |-> home,
         compileSdkVersion |-> getCompileSdk(home, dir),
         buildToolsVersion |-> getBuildToolsVersion(home, dir),
         supportRepositoryVersion |-> getAndroidSupportRepositoryVersion(home, dir)])

\* what getToolsInfo returns and leaves in this.toolsInfo
getToolsInfo(cached, home, dir) == IF ~Truthy(cached) THEN newToolsInfo(home, dir) ELSE cached

ExpectedDirectoriesInAndroidHome == <<"build-tools", "tools", "platform-tools", "extras">>

AndroidHomeNotSetWarning ==
    "The ANDROID_HOME environment variable is not set or it points to a non-existent directory."
AndroidHomeIncorrectWarning ==
    "The ANDROID_HOME environment variable points to incorrect directory."
CompatibleSdkWarning ==
    "Cannot find a compatible Android SDK for compilation."
BuildToolsWarning ==
    "You need to have the Android SDK Build-tools installed on your system."
SupportRepositoryWarning ==
    "You need to have Android SDK 22 or later and the latest Android Support Repository installed on your system."

\* the array of warnings validateAndroidHomeEnvVariable returns
validateAndroidHomeEnvVariable(home, dir) ==
    IF ~Truthy(home) \/ ~fsExists(dir, "")
    THEN Obj(<<AndroidHomeNotSetWarning>>)
    ELSE IF Len([i \in 1..Len(ExpectedDirectoriesInAndroidHome) |->
                    fsExists(dir, ExpectedDirectoriesInAndroidHome[i])]) = 0
         THEN Obj(<<AndroidHomeIncorrectWarning>>)
         ELSE Obj(<<>>)

\* the command the remediation texts name; TypeError when path.join throws
getPathToSdkManagementTool(home, dir, host) ==
    LET isAndroidHomeValid == validateAndroidHomeEnvVariable(home, dir)
        pathToSdkmanager == pathJoin(home, "tools/bin/sdkmanager")
    IN  IF Truthy(isAndroidHomeValid)
        THEN IF IsRejected(pathToSdkmanager) THEN TypeError
             ELSE IF fsExists(dir, "tools/bin/sdkmanager")
                  THEN IF host = "windows" THEN Str(<<>>, "", "%ANDROID_HOME%\\tools\\bin\\sdkmanager")
                       ELSE Str(<<>>, "", "$ANDROID_HOME/tools/bin/sdkmanager")
                  ELSE IF host = "windows" THEN Str(<<>>, "", "%ANDROID_HOME%\\tools\\android")
                       ELSE Str(<<>>, "", "$ANDROID_HOME/tools/android")
        ELSE Str(<<>>, "", "sdkmanager")

\* one entry of the list validateInfo returns: the warning, the command its
\* remediation names, and whether the remediation adds the ANDROID_HOME hint
AndroidWarning(warning, tool, hint) ==
    [warning |-> warning, tool |-> tool, hint |-> hint, platforms |-> <<ANDROID_PLATFORM_NAME>>]

\* validateInfo testing the support library before the build tools
validateInfoSupportLibraryFirst(cached, home, dir, host) ==
    LET toolsInfoData == getToolsInfo(cached, home, dir).o
        isAndroidHomeValid == validateAndroidHomeEnvVariable(home, dir)
        tool == getPathToSdkManagementTool(home, dir, host)
        missing == \/ ~Truthy(toolsInfoData.compileSdkVersion)
                   \/ ~Truthy(toolsInfoData.buildToolsVersion)
                   \/ ~Truthy(toolsInfoData.supportRepositoryVersion)
    IN  IF missing /\ IsRejected(tool) THEN tool
        ELSE Obj(PushIf(~Truthy(toolsInfoData.compileSdkVersion),
                        AndroidWarning(CompatibleSdkWarning, tool, FALSE))
                 \o PushIf(~Truthy(toolsInfoData.supportRepositoryVersion),
                           AndroidWarning(SupportRepositoryWarning, tool,
                                          ~Truthy(isAndroidHomeValid)))
                 \o PushIf(~Truthy(toolsInfoData.buildToolsVersion),
                           AndroidWarning(BuildToolsWarning, tool, ~Truthy(isAndroidHomeValid))))

validateInfo(cached, home, dir, host) ==
    LET toolsInfoData == getToolsInfo(cached, home, dir).o
        isAndroidHomeValid == validateAndroidHomeEnvVariable(home, dir)
        tool == getPathToSdkManagementTool(home, dir, host)
        missing == \/ ~Truthy(toolsInfoData.compileSdkVersion)
                   \/ ~Truthy(toolsInfoData.buildToolsVersion)
                   \/ ~Truthy(toolsInfoData.supportRepositoryVersion)
    IN  IF missing /\ IsRejected(tool) THEN tool
        ELSE Obj(PushIf(~Truthy(toolsInfoData.compileSdkVersion),
                        AndroidWarning(CompatibleSdkWarning, tool, FALSE))
                 \o PushIf(~Truthy(toolsInfoData.buildToolsVersion),
                           AndroidWarning(BuildToolsWarning, tool, ~Truthy(isAndroidHomeValid)))
                 \o PushIf(~Truthy(toolsInfoData.supportRepositoryVersion),
                           AndroidWarning(SupportRepositoryWarning, tool,
                                          ~Truthy(isAndroidHomeValid))))

-----------------------------------------------------------------------------
(* AndroidToolsInfo, called by a client *)

\* a client calls androidToolsInfo.getToolsInfo()
GetToolsInfo ==
    /\ Len(log) < MaxAndroidCalls
    /\ toolsInfo' = getToolsInfo(toolsInfo, androidHome, fs)
    /\ log' = Append(log, LogEntry("getToolsInfo", <<>>, "plain", toolsInfo'))
    /\ UNCHANGED <<hostInfo, env, shouldCache, cache, monoLastIndex, stacks, runs, calls, probes,
                   everUncached, doctor, androidHome, fs, tempDirectories>>

\* a client calls androidToolsInfo.validateInfo()
ValidateInfo ==
    /\ Len(log) < MaxAndroidCalls
    /\ toolsInfo' = getToolsInfo(toolsInfo, androidHome, fs)
    /\ log' = Append(log, LogEntry("validateInfo", <<>>, "plain",
                                   validateInfo(toolsInfo, androidHome, fs, hostInfo)))
    /\ UNCHANGED <<hostInfo, env, shouldCache, cache, monoLastIndex, stacks, runs, calls, probes,
                   everUncached, doctor, androidHome, fs, tempDirectories>>

\* the directory listings the runs draw from
PlatformNumbers == {17, 21, 22, 25, 26}
RECURSIVE Listing(_)
\* the targets numbered in S, in ascending order
Listing(S) ==
    IF S = {} THEN <<>>
    ELSE LET n == CHOOSE m \in S : \A k \in S : m <= k
         IN  <<Target(n)>> \o Listing(S \ {n})
PlatformListings == {Listing(S) : S \in SUBSET PlatformNumbers}
BuildToolsListings ==
    { <<>>, <<Str(<<22, 0, 1>>, "", "")>>, <<Str(<<23, 0, 1>>, "", ""), Str(<<25, 0, 2>>, "", "")>>,
      <<Str(<<125, 0, 2>>, "", ""), Str(<<25, 0, 2>>, "", "")>> }
AppCompatListings ==
    { <<>>, <<Str(<<22, 2, 1>>, "", "")>>, <<Str(<<25, 3, 1>>, "", "")>>,
      <<Str(<<25, 3, 1>>, "", ""), Str(<<26, 0, 0>>, "-rc", "")>>,
      <<Str(<<125, 3, 1>>, "", ""), Str(<<25, 3, 1>>, "", "")>> }

\* the SDK trees: a directory that is missing lists nothing
Directories ==
    { Directory(TRUE, paths, platforms, buildTools, appcompat) :
        paths \in { some \cup standard :
                      some \in SUBSET {"platforms", "build-tools", AppCompatPath,
                                       "tools/bin/sdkmanager"},
                      standard \in {{}, {"tools", "platform-tools", "extras"}} },
        platforms \in PlatformListings, buildTools \in BuildToolsListings,
        appcompat \in AppCompatListings }

WellFormed(dir) ==
    /\ "platforms" \notin dir.paths => dir.platforms = <<>>
    /\ "build-tools" \notin dir.paths => dir.buildTools = <<>>
    /\ AppCompatPath \notin dir.paths => dir.appcompat = <<>>
    /\ AppCompatPath \in dir.paths => "extras" \in dir.paths
    /\ "tools/bin/sdkmanager" \in dir.paths => "tools" \in dir.paths

AndroidHomes == {Undef, Str(<<>>, "", "/opt/android-sdk")}

InitAndroid ==
    /\ hostInfo \in Hosts
    /\ doctor = NewDoctor(IndexArguments)
    /\ InitSysInfo
    /\ androidHome \in AndroidHomes
    /\ fs \in {NoDirectory} \cup {dir \in Directories : WellFormed(dir)}
    /\ androidHome = Undef => fs = NoDirectory
    /\ toolsInfo = Undef

NextAndroid ==
    \/ GetToolsInfo
    \/ ValidateInfo

SpecAndroid == InitAndroid /\ [][NextAndroid]_vars

-----------------------------------------------------------------------------
(* The two validators of AndroidToolsInfo that take no tools data *)

MIN_JAVA_VERSION == Str(<<1, 8, 0>>, "", "")
JavacNotSupportedWarning == "Javac version is not supported. You have to install at least 1.8.0."
JavacErrorWarning == "Error executing command 'javac'."

\* validateJavacVersion without its else branch
validateJavacVersionWithoutElse(installedJavaVersion) ==
    LET matchingVersion ==
            IF Truthy(installedJavaVersion) THEN dirVersion(installedJavaVersion) ELSE Null
    IN  IF Truthy(matchingVersion)
        THEN LET lt == semverLt(matchingVersion, MIN_JAVA_VERSION)
             IN  IF lt = TypeError THEN TypeError
                 ELSE Obj(PushIf(Truthy(lt), JavacNotSupportedWarning))
        ELSE Obj(<<>>)

\* the array of warnings validateJavacVersion returns; TypeError when semver.lt throws
validateJavacVersion(installedJavaVersion) ==
    LET matchingVersion ==
            IF Truthy(installedJavaVersion) THEN dirVersion(installedJavaVersion) ELSE Null
    IN  IF Truthy(matchingVersion)
        THEN LET lt == semverLt(matchingVersion, MIN_JAVA_VERSION)
             IN  IF lt = TypeError THEN TypeError
                 ELSE Obj(PushIf(Truthy(lt), JavacNotSupportedWarning))
        ELSE Obj(<<JavacErrorWarning>>)

\* what a client passes as installedJavaVersion: nothing, an empty string, the
\* text of an error, and versions of one to four components
JavacVersions ==
    { Undef, Null, Str(<<>>, "", ""), Junk, Str(<<9>>, "", ""), Str(<<10, 0>>, "", ""),
      Str(<<1, 7, 0>>, "_80", ""), Str(<<1, 8, 0>>, "", ""), Str(<<1, 8, 0>>, "_211", ""),
      Str(<<11, 0, 2>>, "", ""), Str(<<1, 7, 0, 80>>, "", "") }

\* a client calls androidToolsInfo.validateJavacVersion(installedJavaVersion)
ValidateJavacVersion ==
    /\ Len(log) < MaxAndroidCalls
    /\ \E installedJavaVersion \in JavacVersions :
          log' = Append(log, LogEntry("validateJavacVersion", installedJavaVersion, "plain",
                                      validateJavacVersion(installedJavaVersion)))
    /\ UNCHANGED <<hostInfo, env, shouldCache, cache, monoLastIndex, stacks, runs, calls, probes,
                   everUncached, doctor, android, tempDirectories>>

\* a client calls androidToolsInfo.validateAndroidHomeEnvVariable()
ValidateAndroidHomeEnvVariable ==
    /\ Len(log) < MaxAndroidCalls
    /\ log' = Append(log, LogEntry("validateAndroidHomeEnvVariable", <<>>, "plain",
                                   validateAndroidHomeEnvVariable(androidHome, fs)))
    /\ UNCHANGED <<hostInfo, env, shouldCache, cache, monoLastIndex, stacks, runs, calls, probes,
                   everUncached, doctor, android, tempDirectories>>

\* SDK trees that differ in the directories only
InitValidators ==
    /\ InitAndroid
    /\ fs.platforms = <<>> /\ fs.buildTools = <<>> /\ fs.appcompat = <<>>

NextValidators ==
    \/ ValidateJavacVersion
    \/ ValidateAndroidHomeEnvVariable

SpecValidators == InitValidators /\ [][NextValidators]_vars

-----------------------------------------------------------------------------
(* AndroidToolsInfo while the SDK changes and caching is switched *)

\* the SDK manager installs one more platform into an existing platforms directory
InstallPlatform ==
    /\ fsExists(fs, "platforms")
    /\ \E listing \in PlatformListings :
          /\ Len(listing) = Len(fs.platforms) + 1
          /\ \A i \in 1..Len(fs.platforms) : \E j \in 1..Len(listing) : listing[j] = fs.platforms[i]
          /\ fs' = [fs EXCEPT !.platforms = listing]
    /\ UNCHANGED <<hostInfo, env, shouldCache, cache, monoLastIndex, stacks, runs, calls, probes,
                   everUncached, log, doctor, androidHome, toolsInfo, tempDirectories>>

\* SDK trees that differ in the platforms only
InitSdkLifetime ==
    /\ InitAndroid
    /\ fs.buildTools = <<>> /\ fs.appcompat = <<>>
    /\ fs.root => "tools/bin/sdkmanager" \in fs.paths

NextSdkLifetime ==
    \/ \E b \in BOOLEAN : setShouldCacheSysInfo(b)
    \/ InstallPlatform
    \/ GetToolsInfo
    \/ ValidateInfo

SpecSdkLifetime == InitSdkLifetime /\ [][NextSdkLifetime]_vars

-----------------------------------------------------------------------------
(* Properties of the SysInfo cache (specification Spec) *)

FieldOf(a) == getPropertyName(Property(a))
Completed(fn) == {i \in 1..Len(log) : log[i].fn = fn}
IsAbsentOrNegative(v) == IsNullish(v) \/ v = Bool(FALSE)

\* C1: with caching enabled throughout, two sequential calls of the same
\* accessor return identical values, and a detection strategy that asks an
\* external collaborator has been started at most once across both calls,
\* whatever it yielded (a value, false, or absence).
C1_CachedCallsAreIdempotent ==
    \A a \in Accessors :
        (~everUncached /\ Len(log) = 2 /\ log[1].fn = a /\ log[2].fn = a)
            => /\ log[1].result = log[2].result
               /\ probes[FieldOf(a)] > 0 => runs[FieldOf(a)] <= 1

\* C2: with caching enabled throughout, once a call of an accessor whose
\* strategy asks an external collaborator has completed with absence
\* (null/undefined) or with false, that result is in the accessor's cache slot
\* and the accessor's strategy is never started again.
C2_AbsentButAttemptedIsTerminal ==
    \A a \in Accessors :
        (/\ ~everUncached
         /\ probes[FieldOf(a)] > 0
         /\ \E i \in Completed(a) : IsAbsentOrNegative(log[i].result))
            => /\ runs[FieldOf(a)] <= 1
               /\ \A i \in Completed(a) : cache[FieldOf(a)] = log[i].result

\* C3: while caching is disabled, every entry of an accessor starts that
\* accessor's detection strategy exactly once, and no step changes any cache
\* slot.
C3_UncachedCallsRunOnceAndStoreNothing ==
    [][~shouldCache =>
         /\ cache' = cache
         /\ \A f \in CacheFields : runs'[f] - runs[f] = calls'[f] - calls[f]]_vars

\* C3: caching is disabled, a value stored earlier is still in the cache, and
\* a call of the same accessor has run its strategy and completed
C3_Witness ==
    /\ ~shouldCache
    /\ Len(log) = 2
    /\ log[1].fn = log[2].fn
    /\ log[1].mode = "cache" /\ log[2].mode = "nocache"
    /\ Truthy(cache[FieldOf(log[1].fn)])
    /\ runs[FieldOf(log[1].fn)] = 2

\* C7: no call of an accessor other than the snapshot completes by rejecting,
\* whatever the external collaborators answer.
C7_AccessorsNeverReject ==
    \A i \in 1..Len(log) :
        log[i].fn \in Accessors \ {"getSysInfo"} => ~IsRejected(log[i].result)

\* the tools' commands are the only collaborators that have answered otherwise
\* than on a healthy machine
OnlyToolsBroken == Broken(env) \subseteq ExecCommands \cup SpawnCommands

\* C8: whatever the commands of the individual tools yield (a version, no
\* tool, a malformed or two-component version), getSysInfo completes with a
\* snapshot, never by rejecting.
C8_SysInfoAlwaysCompletes ==
    OnlyToolsBroken =>
        \A i \in Completed("getSysInfo") : log[i].result.t = "obj"

-----------------------------------------------------------------------------
(* Properties of the Doctor (specification SpecDoctor) *)

\* the fixed order of the warnings
WarningOrder ==
    <<AdbWarning, AndroidSdkWarning, XcodeWarning, XcodeprojWarning, CocoaPodsWarning,
      CocoaPodsProblemWarning, CocoaPodsOldWarning, MonoWarning, IosNote, ITunesWarning,
      JdkWarning, GitWarning>>
Position(warning) == CHOOSE k \in 1..Len(WarningOrder) : WarningOrder[k] = warning
DarwinOnlyWarnings ==
    {XcodeWarning, XcodeprojWarning, CocoaPodsWarning, CocoaPodsProblemWarning,
     CocoaPodsOldWarning, MonoWarning}

\* the lists getWarnings has returned
ReturnedWarnings ==
    {log[i].result.o : i \in {j \in Completed("getWarnings") : log[j].result.t = "obj"}}

\* C4: every list getWarnings returns holds warnings of the fixed order only,
\* each at most once and each after every warning that precedes it in that
\* order; the darwin-only warnings and the iOS note never occur together.
C4_WarningsFollowTheFixedOrder ==
    \A w \in ReturnedWarnings :
        /\ \A i \in 1..Len(w) : \E k \in 1..Len(WarningOrder) : WarningOrder[k] = w[i]
        /\ \A i, j \in 1..Len(w) : i < j => Position(w[i]) < Position(w[j])
        /\ ~\E i, j \in 1..Len(w) : w[i] \in DarwinOnlyWarnings /\ w[j] = IosNote

\* C4: getWarnings has returned, on darwin, a list with warnings from before,
\* inside and after the darwin-only checks
C4_Witness ==
    /\ hostInfo = "darwin"
    /\ \E w \in ReturnedWarnings :
          /\ \E i \in 1..Len(w) : w[i] \in {AdbWarning, AndroidSdkWarning}
          /\ \E i \in 1..Len(w) : w[i] \in DarwinOnlyWarnings
          /\ \E i \in 1..Len(w) : w[i] \in {ITunesWarning, JdkWarning, GitWarning}

\* C5: on a host that is not darwin, every list getWarnings returns holds the
\* iOS note exactly once and none of the darwin-only warnings.
C5_OffDarwinOnlyTheIosNote ==
    hostInfo # "darwin" =>
        \A w \in ReturnedWarnings :
            /\ Cardinality({i \in 1..Len(w) : w[i] = IosNote}) = 1
            /\ \A i \in 1..Len(w) : w[i] \notin DarwinOnlyWarnings

\* C5: getWarnings has returned on a host that is not darwin, with warnings
\* on both sides of the iOS note
C5_Witness ==
    /\ hostInfo # "darwin"
    /\ \E w \in ReturnedWarnings :
          \E i \in 2..(Len(w) - 1) : w[i] = IosNote

IsValidationError(v) ==
    /\ IsRejected(v)
    /\ v.s \in {"You must specify a platform.",
                "Platform is not supported. The supported platforms are: Android, iOS"}
IsValidPlatform(platformName) ==
    /\ platformName # <<>>
    /\ \E i \in 1..Len(SUPPORTED_PLATFORMS) :
          toLocaleLowerCase(platformName) = toLocaleLowerCase(SUPPORTED_PLATFORMS[i])
ChecksInvoked == {x \in RequirementChecks : env[x] # Unknown}

\* C6: a completed canExecuteLocalBuild(platform) has failed with a validation
\* error exactly when platform is empty or no supported name in any letter
\* case; in that case no collaborator was asked and no cache slot changed;
\* otherwise exactly one checkRequirements was invoked and its answer returned.
C6_ValidationThenExactlyOneCheck ==
    \A i \in Completed("canExecuteLocalBuild") :
        /\ IsValidationError(log[i].result) <=> ~IsValidPlatform(log[i].arg)
        /\ ~IsValidPlatform(log[i].arg) =>
              /\ \A x \in Externals : env[x] = Unknown
              /\ cache = InitialCache
        /\ IsValidPlatform(log[i].arg) =>
              /\ Cardinality(ChecksInvoked) = 1
              /\ \A x \in ChecksInvoked : log[i].result = env[x]

-----------------------------------------------------------------------------
(* Properties of AndroidToolsInfo (specification SpecAndroid) *)

AllowListed == {SUPPORTED_TARGETS[i].c[1] : i \in 1..Len(SUPPORTED_TARGETS)}
PlatformsListed ==
    IF androidHome.t = "str" /\ fs.root /\ "platforms" \in fs.paths
    THEN {fs.platforms[k] : k \in 1..Len(fs.platforms)}
    ELSE {}
InstalledAllowListed == {n \in AllowListed : Target(n) \in PlatformsListed}
HighestInstalledAllowListed ==
    CHOOSE n \in InstalledAllowListed : \A m \in InstalledAllowListed : m <= n
ExpectedCompileTarget ==
    IF InstalledAllowListed # {} /\ HighestInstalledAllowListed >= 22
    THEN Num(HighestInstalledAllowListed)
    ELSE Undef

\* C9: every completed validateInfo has returned a list of warnings, and when
\* no compatible compile target is installed the list holds the "Cannot find
\* a compatible Android SDK" warning with a remediation that names the SDK
\* management tool.
C9_ValidateInfoAlwaysReturnsWarnings ==
    \A i \in Completed("validateInfo") :
        /\ log[i].result.t = "obj"
        /\ ExpectedCompileTarget = Undef =>
              \E k \in 1..Len(log[i].result.o) :
                  /\ log[i].result.o[k].warning = CompatibleSdkWarning
                  /\ log[i].result.o[k].tool.t = "str"

\* C10: the compile target getToolsInfo resolved is the largest n with
\* android-n both allow-listed and listed in the platforms directory, provided
\* n >= 22, and is absent otherwise (nothing allow-listed installed, the
\* highest below 22, platforms directory or SDK root missing).
C10_CompileTargetIsHighestAllowListed ==
    toolsInfo # Undef => toolsInfo.o.compileSdkVersion = ExpectedCompileTarget

\* C10: the resolver has chosen 25 from a listing that also holds a lower
\* allow-listed target and a higher target that is not allow-listed
C10_Witness ==
    /\ toolsInfo # Undef
    /\ toolsInfo.o.compileSdkVersion = Num(25)
    /\ {Target(22), Target(25), Target(26)} \subseteq PlatformsListed

-----------------------------------------------------------------------------
(* Properties of the directory selection *)

\* the positions of a listing whose own extracted version lies in the range
InRange(subDirs, range) ==
    {i \in 1..Len(subDirs) :
        Truthy(dirVersion(subDirs[i])) /\ satisfies(dirVersion(subDirs[i]), range)}

\* the first name whose own extracted version is the greatest in the range
FirstOfGreatestInRange(subDirs, range) ==
    LET best == {i \in InRange(subDirs, range) :
                    \A j \in InRange(subDirs, range) :
                        ~CompsLess(dirVersion(subDirs[i]).c, dirVersion(subDirs[j]).c)}
    IN  IF best = {} THEN Undef
        ELSE subDirs[CHOOSE i \in best : \A j \in best : i <= j]

\* C11: the build-tools directory getToolsInfo selected from an existing
\* build-tools listing is the first name whose own extracted version equals
\* the greatest extracted version within >=23 <=25, and is absent when no
\* extracted version is within the range; so the selected directory's own
\* version is never outside the range.
C11_MatchingDirIsFirstOfGreatestInRange ==
    (toolsInfo # Undef /\ Truthy(androidHome) /\ fsExists(fs, "build-tools")) =>
        toolsInfo.o.buildToolsVersion = FirstOfGreatestInRange(fs.buildTools, getBuildToolsRange)

\* C12: in the data getToolsInfo returned, a support-library version is
\* present only if the compile target is present and the SDK root is set, and
\* the major component of the selected directory's own version equals the
\* compile target.
C12_SupportRepositoryMajorIsCompileTarget ==
    (toolsInfo # Undef /\ Truthy(toolsInfo.o.supportRepositoryVersion)) =>
        /\ Truthy(toolsInfo.o.compileSdkVersion)
        /\ Truthy(toolsInfo.o.androidHomeEnvVar)
        /\ dirVersion(toolsInfo.o.supportRepositoryVersion).c[1] = toolsInfo.o.compileSdkVersion.c[1]

\* the expected standard subdirectories the SDK root has
ExpectedDirectoriesPresent ==
    {i \in 1..Len(ExpectedDirectoriesInAndroidHome) :
        fsExists(fs, ExpectedDirectoriesInAndroidHome[i])}

\* C13: every completed validateAndroidHomeEnvVariable has returned a warning
\* when the SDK root is unset or does not exist, and also when it exists but
\* has none of build-tools, tools, platform-tools, extras; it has returned no
\* warning only for an existing root that has all four.
C13_AndroidHomeLackingDirectoriesIsWarned ==
    \A i \in Completed("validateAndroidHomeEnvVariable") :
        /\ log[i].result.t = "obj"
        /\ (~Truthy(androidHome) \/ ~fsExists(fs, "")) => Len(log[i].result.o) >= 1
        /\ (Truthy(androidHome) /\ fsExists(fs, "") /\ ExpectedDirectoriesPresent = {}) =>
               Len(log[i].result.o) >= 1
        /\ Len(log[i].result.o) = 0 =>
               /\ Truthy(androidHome) /\ fsExists(fs, "")
               /\ ExpectedDirectoriesPresent = 1..Len(ExpectedDirectoriesInAndroidHome)

\* what the claim says validateJavacVersion(raw) returns
ExpectedJavacWarnings(raw) ==
    LET parsed == IF raw.t = "str" THEN dirVersion(raw) ELSE Null
    IN  IF parsed = Null THEN <<JavacErrorWarning>>
        ELSE IF CompsLess(parsed.c, <<1, 8, 0>>) THEN <<JavacNotSupportedWarning>>
        ELSE <<>>

-----------------------------------------------------------------------------
(* Properties of the CocoaPods functional check *)

\* C15: on darwin every completed isCocoaPodsWorkingCorrectly has returned
\* true only if `pod install` exited with code 0 and the workspace was found;
\* when `pod install` exited with a nonzero code it has returned false and
\* the workspace was not looked for; it has returned null only when running
\* `pod install` failed.
C15_FunctionalCheckResultByCase ==
    hostInfo = "darwin" =>
        \A i \in Completed("isCocoaPodsWorkingCorrectly") :
            /\ log[i].result = Bool(TRUE) =>
                  /\ env["pod install"] = Str(<<>>, "", "exit 0")
                  /\ env["exists cocoapods.xcworkspace"] = Bool(TRUE)
            /\ env["pod install"] = Str(<<>>, "", "exit 1") =>
                  /\ log[i].result = Bool(FALSE)
                  /\ env["exists cocoapods.xcworkspace"] = Unknown
            /\ log[i].result = Null => env["pod install"] = Rejected

\* a getWarnings evaluation has begun on task 1 or has completed
GetWarningsBegun ==
    \/ stacks[1] # <<>> /\ stacks[1][1].fn = "getWarnings"
    \/ Completed("getWarnings") # {}

\* C16: during a getWarnings evaluation on darwin with caching enabled, the
\* functional check has created its temporary directory (and goes on to
\* extract the archive and run `pod install`) only if the Xcode version and
\* the CocoaPods version were both detected as present earlier in the
\* evaluation.
C16_FunctionalCheckOnlyWithXcodeAndCocoaPods ==
    (/\ hostInfo = "darwin" /\ shouldCache /\ ~everUncached
     /\ GetWarningsBegun
     /\ env["temp.mkdirSync"] # Unknown) =>
        /\ Truthy(cache["xCodeVerCache"])
        /\ Truthy(cache["cocoaPodsVerCache"])

\* C17: once isCocoaPodsWorkingCorrectly has completed, with true, false,
\* null or a failure, and nothing is running, no directory created by
\* temp.mkdirSync exists any more.
C17_TemporaryDirectoryIsRemoved ==
    (Idle /\ Completed("isCocoaPodsWorkingCorrectly") # {}) => tempDirectories = 0

-----------------------------------------------------------------------------
(* Properties of the snapshot getWarnings evaluates *)

\* getWarnings on task 1 has received the snapshot and is evaluating its checks
SnapshotBuilt ==
    /\ Len(stacks[1]) = 1
    /\ stacks[1][1].fn = "getWarnings"
    /\ Len(stacks[1][1].loc) >= 1

\* C18: once getWarnings has received the snapshot from getSysInfo, its next
\* step is to return: no accessor is entered, no strategy is started and no
\* external collaborator is asked again, with caching enabled or disabled.
C18_ChecksReadOnlyTheSnapshot ==
    [][SnapshotBuilt =>
          /\ stacks'[1] = <<>>
          /\ calls' = calls /\ runs' = runs /\ probes' = probes /\ env' = env]_vars

\* C18: getWarnings has returned its list on darwin from a snapshot in which
\* both the Xcode version and the CocoaPods version are present
C18_Witness ==
    /\ hostInfo = "darwin"
    /\ \E i \in Completed("getWarnings") : log[i].result.t = "obj"
    /\ env["xcodebuild -version"] = Healthy("xcodebuild -version")
    /\ env["pod --version"] = Healthy("pod --version")

-----------------------------------------------------------------------------
(* Properties of overlapping calls *)

\* C19: with caching enabled throughout, a strategy whose value is in the
\* cache has been started once only, however the calls interleave.
C19_StrategyRunsOnceUnderOverlap ==
    (shouldCache /\ ~everUncached) =>
        \A f \in CacheFields : ~IsNullish(cache[f]) => runs[f] <= 1

-----------------------------------------------------------------------------
(* Properties of the lifetime of the tools data *)

\* C20: a getToolsInfo or validateInfo that completes while caching is
\* disabled has computed its result from the file system as it is at the
\* call, not from the data computed on first access.
C20_DisabledCachingRecomputesToolsInfo ==
    [][(~shouldCache /\ Len(log') = Len(log) + 1) =>
          LET entry == log'[Len(log')]
          IN  /\ entry.fn = "getToolsInfo" => entry.result = newToolsInfo(androidHome, fs)
              /\ entry.fn = "validateInfo" =>
                    entry.result = validateInfo(Undef, androidHome, fs, hostInfo)]_vars

-----------------------------------------------------------------------------
(* Properties of the values the accessors return *)

\* the accessors that report the version of a tool
VersionAccessors ==
    { "getJavaVersion", "getJavaCompilerVersion", "getXcodeVersion", "getNpmVersion",
      "getNodeGypVersion", "getCocoaPodsVersion", "getAdbVersion", "getMonoVersion",
      "getGitVersion", "getGradleVersion", "getNativeScriptCliVersion" }

\* C21: every completed version accessor has returned, when it returned a
\* string at all, a version of exactly three numeric components and nothing
\* else: no build suffix, no other text, no two-component version.
C21_VersionsAreNormalized ==
    \A i \in 1..Len(log) :
        (log[i].fn \in VersionAccessors /\ log[i].result.t = "str") =>
            semverValid(log[i].result)

\* the accessors and host reads getSysInfo awaits, in the order of its source
ProbeOrder ==
    << "getOs", "process.version", "getNpmVersion", "getNodeGypVersion",
       "hostInfo.dotNetVersion", "getJavaVersion", "getJavaCompilerVersion", "getXcodeVersion",
       "getXcodeprojGemLocation", "isITunesInstalled", "getCocoaPodsVersion", "getAdbVersion",
       "isAndroidInstalled", "getMonoVersion", "getGitVersion", "getGradleVersion",
       "isCocoaPodsWorkingCorrectly", "getNativeScriptCliVersion", "isCocoaPodsUpdateRequired" >>

\* probe p of the snapshot has been started
Entered(p) ==
    IF p \in Accessors THEN calls[getPropertyName(Property(p))] >= 1 ELSE env[p] # Unknown

\* the external collaborators awaited at this moment
InFlight == {t \in Tasks : Busy(t) /\ NextOp(Top(t)).k = "ext"}

\* C22: while the first getSysInfo of a run is in progress with k fields
\* received, the probes of the first k fields have been started, no probe
\* after the (k+1)-th has been started, and at most one external command or
\* file system probe is awaited.
C22_ProbesAreSequencedInOrder ==
    (log = <<>> /\ Busy(1) /\ stacks[1][1].fn = "getSysInfo") =>
        LET k == Len(stacks[1][1].loc)
        IN  /\ \A j \in 1..Len(ProbeOrder) :
                  /\ j <= k => Entered(ProbeOrder[j])
                  /\ j > k + 1 => ~Entered(ProbeOrder[j])
            /\ Cardinality(InFlight) <= 1

\* C22: getSysInfo on darwin awaits `pod install` inside its seventeenth
\* probe, after sixteen fields were received
C22_Witness ==
    /\ log = <<>> /\ Busy(1) /\ stacks[1][1].fn = "getSysInfo"
    /\ Len(stacks[1][1].loc) = 16
    /\ Len(stacks[1]) = 2
    /\ NextOp(Top(1)) = Ext("pod install")

-----------------------------------------------------------------------------
(* Properties of the CocoaPods warnings *)

\* warning w is in a list of warnings
Warned(list, w) == \E k \in 1..Len(list) : list[k] = w

\* the CocoaPods version getCocoaPodsVersion detected, caching enabled throughout
DetectedCocoaPodsVersion == cache["cocoaPodsVerCache"]

\* C23: on darwin with caching enabled, every list getWarnings has returned
\* holds the 'CocoaPods is not installed' warning if and only if the
\* CocoaPods version SysInfo detected is absent.
C23_NotInstalledWarningIffVersionAbsent ==
    (hostInfo = "darwin" /\ shouldCache /\ ~everUncached) =>
        \A list \in ReturnedWarnings :
            Warned(list, CocoaPodsWarning) <=> ~Truthy(DetectedCocoaPodsVersion)

\* C24: on darwin with caching enabled, every list getWarnings has returned
\* holds the 'earlier than 0.38.2' warning if and only if the detected
\* CocoaPods version is a valid version below 0.38.2.
C24_TooOldWarningIffVersionBelowMinimum ==
    (hostInfo = "darwin" /\ shouldCache /\ ~everUncached) =>
        \A list \in ReturnedWarnings :
            Warned(list, CocoaPodsOldWarning) <=>
                /\ semverValid(DetectedCocoaPodsVersion)
                /\ CompsLess(DetectedCocoaPodsVersion.c, <<0, 38, 2>>)

\* xcproj is required: CocoaPods detected below 1.0.0 and Xcode at least 7.3.0
XcprojRequired ==
    /\ semverValid(cache["cocoaPodsVerCache"])
    /\ CompsLess(cache["cocoaPodsVerCache"].c, <<1, 0, 0>>)
    /\ semverValid(cache["xCodeVerCache"])
    /\ ~CompsLess(cache["xCodeVerCache"].c, <<7, 3, 0>>)

\* C25: with caching enabled, `xcproj --version` has been run only if xcproj
\* is required, and every completed isCocoaPodsUpdateRequired has returned
\* true when xcproj is required and its probe found it unavailable and false
\* in every other case, CocoaPods or Xcode absent included; never null and
\* never a failure.
C25_UpdateRequiredIsBooleanByCase ==
    (shouldCache /\ ~everUncached) =>
        /\ env["xcproj --version"] # Unknown => XcprojRequired
        /\ \A i \in Completed("isCocoaPodsUpdateRequired") :
              log[i].result =
                  Bool(XcprojRequired /\ exec(env["xcproj --version"]) = Null)

-----------------------------------------------------------------------------
(* Properties of the list validateInfo returns *)

\* the warning texts for the components missing from the tools data, in the
\* order compile target, build tools, support library
ExpectedAndroidWarnings ==
    PushIf(~Truthy(toolsInfo.o.compileSdkVersion), CompatibleSdkWarning)
    \o PushIf(~Truthy(toolsInfo.o.buildToolsVersion), BuildToolsWarning)
    \o PushIf(~Truthy(toolsInfo.o.supportRepositoryVersion), SupportRepositoryWarning)

\* C26: every list validateInfo has returned holds exactly one warning per
\* component missing from the tools data, in the order compile target, build
\* tools, support library, each for the Android platform alone; it is empty
\* if and only if the three components are present, and it holds the
\* compile-target warning only together with the support-library warning.
C26_OneWarningPerMissingComponent ==
    \A i \in Completed("validateInfo") :
        log[i].result.t = "obj" =>
            LET list == log[i].result.o
            IN  /\ [k \in 1..Len(list) |-> list[k].warning] = ExpectedAndroidWarnings
                /\ \A k \in 1..Len(list) : list[k].platforms = <<ANDROID_PLATFORM_NAME>>
                /\ list = <<>> <=>
                      /\ Truthy(toolsInfo.o.compileSdkVersion)
                      /\ Truthy(toolsInfo.o.buildToolsVersion)
                      /\ Truthy(toolsInfo.o.supportRepositoryVersion)
                /\ (\E k \in 1..Len(list) : list[k].warning = CompatibleSdkWarning) =>
                      (\E k \in 1..Len(list) : list[k].warning = SupportRepositoryWarning)

\* C26: validateInfo has returned two warnings, build tools then support
\* library, for an SDK with a compile target, and an empty list for none
C26_Witness ==
    \E i \in Completed("validateInfo") :
        /\ log[i].result.t = "obj"
        /\ Len(log[i].result.o) = 2
        /\ log[i].result.o[1].warning = BuildToolsWarning
        /\ log[i].result.o[2].warning = SupportRepositoryWarning
        /\ Truthy(toolsInfo.o.compileSdkVersion)

-----------------------------------------------------------------------------
(* Properties of the cache under the caching switch *)

C28_UncachedCallsAreDeterministic ==
    \A i, j \in 1..Len(log) :
        (/\ log[i].fn = log[j].fn /\ log[i].fn \in Accessors
         /\ log[i].mode = "nocache" /\ log[j].mode = "nocache") =>
            log[i].result = log[j].result

-----------------------------------------------------------------------------
(* Properties of the exported doctor *)

\* C29: every getWarnings completed by the doctor lib/index.ts builds has
\* asked the exported SysInfo instance for the snapshot, by a doctor whose
\* sysInfo field holds that instance and whose hostInfo field holds the
\* HostInfo instance.
C29_ExportedDoctorIsWiredByRole ==
    doctor = NewDoctor(IndexArguments) =>
        \A i \in Completed("getWarnings") :
            /\ doctor.sysInfo = "sysInfo"
            /\ doctor.hostInfo = "hostInfo"
            /\ calls["sysInfoCache"] >= 1

====
